---- MODULE Spec2Model ----
(***************************************************************************)
(* Model of InvenTreeInternalBarcodePlugin (plugin/builtin/barcodes/       *)
(* inventree_barcode.py): scan() resolves a barcode payload to a database  *)
(* object by the short format, the JSON format and the linked-barcode hash *)
(* in turn; generate() renders the barcode of a model instance.            *)
(*                                                                         *)
(* Text is a sequence of one-character strings, so that formatting and     *)
(* parsing are computed.  The JSON reader covers objects, integers,        *)
(* strings and null; the regular expression's \d is the ASCII digits.      *)
(***************************************************************************)
EXTENDS Integers, Sequences, FiniteSets, TLC

VARIABLES objects, barcode_hash, prefix, barcode_format,
          op, instance, payload, result, prev_result

vars == <<objects, barcode_hash, prefix, barcode_format,
          op, instance, payload, result, prev_result>>

store == <<objects, barcode_hash, prefix, barcode_format>>

(***************************************************************************)
(* Bounds                                                                  *)
(***************************************************************************)
SmallPk == 1
LargePk == 12
MaxRecords == 2
HashBuckets == 2

Ids == {SmallPk, LargePk}

(***************************************************************************)
(* Characters                                                              *)
(***************************************************************************)
DigitSeq == <<"0", "1", "2", "3", "4", "5", "6", "7", "8", "9">>

Digits == {DigitSeq[i] : i \in 1..10}

UpperCase == {"A", "B", "C", "D", "E", "F", "G", "H", "I", "J", "K", "L", "M",
              "N", "O", "P", "Q", "R", "S", "T", "U", "V", "W", "X", "Y", "Z"}

\* the class [0-9A-Z $%*+-.\/:] ; +-. is the range + , - .
TypeCodeChars == Digits \cup UpperCase \cup
                 {" ", "$", "%", "*", "+", ",", "-", ".", "/", ":"}

WhiteSpace == {" ", "\n"}

DigitVal(c) == (CHOOSE i \in 1..10 : DigitSeq[i] = c) - 1

AllDigits(s) == \A i \in 1..Len(s) : s[i] \in Digits

RECURSIVE DigitsValue(_)
DigitsValue(s) ==
    IF Len(s) = 0 THEN 0
    ELSE 10 * DigitsValue(SubSeq(s, 1, Len(s) - 1)) + DigitVal(s[Len(s)])

\* str(pk) of a non-negative integer, as the f-string and json.dumps write it
RECURSIVE ToDecimal(_)
ToDecimal(n) ==
    IF n < 10 THEN <<DigitSeq[n + 1]>>
    ELSE ToDecimal(n \div 10) \o <<DigitSeq[(n % 10) + 1]>>

(***************************************************************************)
(* Registry of the models that support barcodes                            *)
(***************************************************************************)
PartLabel == <<"p", "a", "r", "t">>
BuildLabel == <<"b", "u", "i", "l", "d">>
SuccessKey == <<"s", "u", "c", "c", "e", "s", "s">>
succcess_message == "Found matching item"

\* get_supported_barcode_models(): registration order, not alphabetical
SupportedModels ==
    << [label |-> PartLabel, code |-> <<"P", "A">>],
       [label |-> BuildLabel, code |-> <<"B", "O">>] >>

ModelIdx == 1..Len(SupportedModels)

NoModel == 0

barcode_model_type(m) == SupportedModels[m].label

barcode_model_type_code(m) == SupportedModels[m].code

\* get_supported_barcode_model_codes_map().get(code, None)
SupportedModelsMapGet(code) ==
    IF \E m \in ModelIdx : barcode_model_type_code(m) = code
    THEN CHOOSE m \in ModelIdx : barcode_model_type_code(m) = code
    ELSE NoModel

(***************************************************************************)
(* Values                                                                  *)
(***************************************************************************)
EmptyDict == [k \in {} |-> 0]

JInt(n) == [t |-> "int", n |-> n, s |-> <<>>]
JStr(s) == [t |-> "str", n |-> 0, s |-> s]
JNull == [t |-> "null", n |-> 0, s |-> <<>>]
JObj == [t |-> "dict", n |-> 0, s |-> <<>>]

TextPayload(s) == [type |-> "str", text |-> s, dict |-> EmptyDict]
DictPayload(d) == [type |-> "dict", text |-> <<>>, dict |-> d]
NoPayload == [type |-> "none", text |-> <<>>, dict |-> EmptyDict]

Instance(m, pk) == [model |-> m, pk |-> pk]
NoInstance == [model |-> NoModel, pk |-> 0]

ReturnNone(k) == [kind |-> "None", d |-> EmptyDict, exc |-> "", strategy |-> k]
ReturnDict(d, k) == [kind |-> "dict", d |-> d, exc |-> "", strategy |-> k]
Raise(e, k) == [kind |-> "raise", d |-> EmptyDict, exc |-> e, strategy |-> k]
NotScanned == [kind |-> "unset", d |-> EmptyDict, exc |-> "", strategy |-> 0]

(***************************************************************************)
(* json.loads, restricted to objects, integers, strings and null           *)
(***************************************************************************)
ParseFail == [ok |-> FALSE, val |-> JNull, dict |-> EmptyDict, next |-> 0]
ParseOk(v, d, i) == [ok |-> TRUE, val |-> v, dict |-> d, next |-> i]

At(s, i) == IF i >= 1 /\ i <= Len(s) THEN s[i] ELSE ""

RECURSIVE SkipWs(_, _)
SkipWs(s, i) == IF At(s, i) \in WhiteSpace THEN SkipWs(s, i + 1) ELSE i

RECURSIVE SkipDigits(_, _)
SkipDigits(s, i) == IF At(s, i) \in Digits THEN SkipDigits(s, i + 1) ELSE i

\* -?(0|[1-9]\d*)
ParseNumber(s, i) ==
    LET j == IF At(s, i) = "-" THEN i + 1 ELSE i
        k == IF At(s, j) = "0" THEN j + 1 ELSE SkipDigits(s, j)
        n == DigitsValue(SubSeq(s, j, k - 1))
    IN  IF k = j THEN ParseFail
        ELSE ParseOk(JInt(IF j > i THEN 0 - n ELSE n), EmptyDict, k)

RECURSIVE StringEnd(_, _)
StringEnd(s, i) ==
    IF i > Len(s) \/ s[i] = "\n" THEN 0
    ELSE IF s[i] = "\"" THEN i
    ELSE StringEnd(s, i + 1)

\* s[i] is the opening quote
ParseString(s, i) ==
    LET e == StringEnd(s, i + 1)
    IN  IF e = 0 THEN ParseFail
        ELSE ParseOk(JStr(SubSeq(s, i + 1, e - 1)), EmptyDict, e + 1)

RECURSIVE ParseValue(_, _)
RECURSIVE ParseMembers(_, _, _)

\* s[i] is where the key of the next member must start
ParseMembers(s, i, acc) ==
    IF At(s, i) # "\"" THEN ParseFail
    ELSE LET key == ParseString(s, i)
             c == SkipWs(s, key.next)
         IN  IF ~key.ok \/ At(s, c) # ":" THEN ParseFail
             ELSE LET v == ParseValue(s, SkipWs(s, c + 1))
                      e == SkipWs(s, v.next)
                      d == (key.val.s :> v.val) @@ acc
                  IN  IF ~v.ok THEN ParseFail
                      ELSE IF At(s, e) = "}" THEN ParseOk(JObj, d, e + 1)
                      ELSE IF At(s, e) = ","
                           THEN ParseMembers(s, SkipWs(s, e + 1), d)
                      ELSE ParseFail

ParseValue(s, i) ==
    LET c == At(s, i)
    IN  IF c = "\"" THEN ParseString(s, i)
        ELSE IF c = "{"
             THEN LET j == SkipWs(s, i + 1)
                  IN  IF At(s, j) = "}" THEN ParseOk(JObj, EmptyDict, j + 1)
                      ELSE ParseMembers(s, j, EmptyDict)
        ELSE IF c = "n"
             THEN IF i + 3 <= Len(s) /\ SubSeq(s, i, i + 3) = <<"n", "u", "l", "l">>
                  THEN ParseOk(JNull, EmptyDict, i + 4)
                  ELSE ParseFail
        ELSE IF c = "-" \/ c \in Digits THEN ParseNumber(s, i)
        ELSE ParseFail

\* ok = FALSE stands for json.JSONDecodeError
JsonLoads(s) ==
    LET v == ParseValue(s, SkipWs(s, 1))
    IN  IF v.ok /\ SkipWs(s, v.next) = Len(s) + 1 THEN v ELSE ParseFail

\* json.dumps({label: str(pk)})
JsonDumpsQuotedPk(label, pk) ==
    <<"{", "\"">> \o label \o <<"\"", ":", " ", "\"">> \o ToDecimal(pk) \o <<"\"", "}">>

\* json.dumps({label: pk})
JsonDumps(label, pk) ==
    <<"{", "\"">> \o label \o <<"\"", ":", " ">> \o ToDecimal(pk) \o <<"}">>

(***************************************************************************)
(* int(value)                                                              *)
(***************************************************************************)
IntOk(n) == [exc |-> "", n |-> n]
IntRaise(e) == [exc |-> e, n |-> 0]

RECURSIVE Strip(_)
Strip(s) ==
    IF Len(s) > 0 /\ s[1] \in WhiteSpace THEN Strip(Tail(s))
    ELSE IF Len(s) > 0 /\ s[Len(s)] \in WhiteSpace
         THEN Strip(SubSeq(s, 1, Len(s) - 1))
    ELSE s

PyIntStr(s) ==
    LET b == Strip(s)
        signed == Len(b) > 0 /\ b[1] \in {"+", "-"}
        ds == IF signed THEN Tail(b) ELSE b
    IN  IF Len(ds) = 0 \/ ~AllDigits(ds) THEN IntRaise("ValueError")
        ELSE IntOk(IF signed /\ b[1] = "-" THEN 0 - DigitsValue(ds)
                   ELSE DigitsValue(ds))

PyInt(v) ==
    IF v.t = "int" THEN IntOk(v.n)
    ELSE IF v.t = "str" THEN PyIntStr(v.s)
    ELSE IntRaise("TypeError")

(***************************************************************************)
(* Database and settings, as scan and generate read them                   *)
(***************************************************************************)
NoHash == 0 - 1

Hashes == 0..(HashBuckets - 1)

get_setting_prefix == prefix

get_setting_format == barcode_format

\* model.objects.get(pk=pk): found = FALSE stands for model.DoesNotExist
ObjectsGet(m, pk) ==
    IF pk \in objects[m] THEN [found |-> TRUE, instance |-> Instance(m, pk)]
    ELSE [found |-> FALSE, instance |-> NoInstance]

Linked(m, h) == {pk \in objects[m] : barcode_hash[m][pk] = h}

Min(S) == CHOOSE x \in S : \A y \in S : x <= y

\* model.lookup_barcode(barcode_hash): None is NoInstance
lookup_barcode(m, h) ==
    IF Linked(m, h) = {} THEN NoInstance ELSE Instance(m, Min(Linked(m, h)))

RECURSIVE SumDigits(_)
SumDigits(s) ==
    IF Len(s) = 0 THEN 0
    ELSE SumDigits(Tail(s)) + (IF s[1] \in Digits THEN DigitVal(s[1]) ELSE 0)

RECURSIVE SumKeys(_, _)
SumKeys(d, K) ==
    IF K = {} THEN 0
    ELSE LET k == CHOOSE x \in K : TRUE
         IN  Len(k) + SumDigits(k) + d[k].n + Len(d[k].s) + SumKeys(d, K \ {k})

\* hash_barcode(barcode_data): a function of the payload as it was handed in
hash_barcode(p) ==
    IF p.type = "str" THEN (Len(p.text) + SumDigits(p.text)) % HashBuckets
    ELSE (1 + SumKeys(p.dict, DOMAIN p.dict)) % HashBuckets

\* instance.format_matched_response()
InstanceResponse(inst) == inst

format_matched_response(label, m, inst) == (label :> InstanceResponse(inst))

WithSuccess(d) == d @@ (SuccessKey :> succcess_message)

(***************************************************************************)
(* scan                                                                    *)
(***************************************************************************)
NoMatch == [matched |-> FALSE, code |-> <<>>, pk |-> <<>>]

\* re.match(f'^{re.escape(prefix)}([0-9A-Z $%*+-.\/:]{2})(\d+)$', text);
\* $ also matches before one trailing newline
ReMatch(pre, text) ==
    LET body == IF Len(text) > 0 /\ text[Len(text)] = "\n"
                THEN SubSeq(text, 1, Len(text) - 1) ELSE text
        n == Len(pre)
    IN  IF /\ Len(body) >= n + 3
           /\ SubSeq(body, 1, n) = pre
           /\ body[n + 1] \in TypeCodeChars
           /\ body[n + 2] \in TypeCodeChars
           /\ AllDigits(SubSeq(body, n + 3, Len(body)))
        THEN [matched |-> TRUE, code |-> SubSeq(body, n + 1, n + 2),
              pk |-> SubSeq(body, n + 3, Len(body))]
        ELSE NoMatch

ShortMatch(p) ==
    IF p.type = "str" THEN ReMatch(get_setting_prefix, p.text) ELSE NoMatch

Continue == [done |-> FALSE, ret |-> NotScanned]
Return(r) == [done |-> TRUE, ret |-> r]

\* the short-format match returned with the success message
ScanShortFormatWithSuccess(p) ==
    LET m == ShortMatch(p)
        model == SupportedModelsMapGet(m.code)
        got == ObjectsGet(model, DigitsValue(m.pk))
    IN  IF ~m.matched THEN Continue
        ELSE IF model = NoModel THEN Return(ReturnNone(1))
        ELSE IF got.found
             THEN Return(ReturnDict(WithSuccess(format_matched_response(
                             barcode_model_type(model), model, got.instance)), 1))
        ELSE Continue

\* Internal barcodes, short format
ScanShortFormat(p) ==
    LET m == ShortMatch(p)
        model == SupportedModelsMapGet(m.code)
        got == ObjectsGet(model, DigitsValue(m.pk))
    IN  IF ~m.matched THEN Continue
        ELSE IF model = NoModel THEN Return(ReturnNone(1))
        ELSE IF got.found
             THEN Return(ReturnDict(format_matched_response(
                             barcode_model_type(model), model, got.instance), 1))
        ELSE Continue

\* barcode_dict without the json.loads of a text payload
BarcodeDictNoDecode(p) ==
    IF p.type = "dict" THEN [isdict |-> TRUE, d |-> p.dict]
    ELSE [isdict |-> FALSE, d |-> EmptyDict]

\* barcode_dict: isdict = FALSE when the payload is not and does not decode to a dict
BarcodeDict(p) ==
    IF p.type = "dict" THEN [isdict |-> TRUE, d |-> p.dict]
    ELSE LET v == JsonLoads(p.text)
         IN  IF v.ok /\ v.val.t = "dict" THEN [isdict |-> TRUE, d |-> v.dict]
             ELSE [isdict |-> FALSE, d |-> EmptyDict]

RECURSIVE JsonModelLoop(_, _)
JsonModelLoop(d, model) ==
    IF model > Len(SupportedModels) THEN Continue
    ELSE LET label == barcode_model_type(model)
         IN  IF label \notin DOMAIN d THEN JsonModelLoop(d, model + 1)
             ELSE LET pk == PyInt(d[label])
                      got == ObjectsGet(model, pk.n)
                  IN  IF pk.exc = "TypeError" THEN Return(Raise("TypeError", 2))
                      ELSE IF pk.exc = "ValueError" THEN JsonModelLoop(d, model + 1)
                      ELSE IF got.found
                           THEN Return(ReturnDict(WithSuccess(format_matched_response(
                                           label, model, got.instance)), 2))
                      ELSE JsonModelLoop(d, model + 1)

\* Internal barcodes, JSON format
ScanJsonFormat(p) ==
    LET b == BarcodeDict(p)
    IN  IF b.isdict THEN JsonModelLoop(b.d, 1) ELSE Continue

\* the loop without its return: the last model with a linked record wins
RECURSIVE LinkedModelLoopLast(_, _)
LinkedModelLoopLast(h, model) ==
    IF model > Len(SupportedModels) THEN ReturnNone(3)
    ELSE LET inst == lookup_barcode(model, h)
             rest == LinkedModelLoopLast(h, model + 1)
         IN  IF rest.kind = "dict" \/ inst = NoInstance THEN rest
             ELSE ReturnDict(WithSuccess(format_matched_response(
                                 barcode_model_type(model), model, inst)), 3)

RECURSIVE LinkedModelLoop(_, _)
LinkedModelLoop(h, model) ==
    IF model > Len(SupportedModels) THEN ReturnNone(3)
    ELSE LET inst == lookup_barcode(model, h)
         IN  IF inst # NoInstance
             THEN ReturnDict(WithSuccess(format_matched_response(
                                 barcode_model_type(model), model, inst)), 3)
             ELSE LinkedModelLoop(h, model + 1)

\* External (linked) barcodes
ScanLinked(p) == LinkedModelLoop(hash_barcode(p), 1)

Scan(p) ==
    LET s1 == ScanShortFormat(p)
        s2 == ScanJsonFormat(p)
    IN  IF s1.done THEN s1.ret
        ELSE IF s2.done THEN s2.ret
        ELSE ScanLinked(p)

(***************************************************************************)
(* generate                                                                *)
(***************************************************************************)
\* the short format written without the prefix
GenerateNoPrefix(inst) ==
    IF get_setting_format = "short"
    THEN barcode_model_type_code(inst.model) \o ToDecimal(inst.pk)
    ELSE JsonDumps(barcode_model_type(inst.model), inst.pk)

Generate(inst) ==
    IF get_setting_format = "short"
    THEN get_setting_prefix \o barcode_model_type_code(inst.model) \o ToDecimal(inst.pk)
    ELSE JsonDumps(barcode_model_type(inst.model), inst.pk)

(***************************************************************************)
(* Inputs                                                                  *)
(***************************************************************************)
DefaultPrefix == <<"I", "N", "V", "-">>

Prefixes == {DefaultPrefix, <<>>, <<"X", ".">>}

Formats == {"json", "short", "other"}

UnknownCode == <<"Z", "Z">>

Quoted(s) == <<"\"">> \o s \o <<"\"">>
Member(label, value) == Quoted(label) \o <<":", " ">> \o value
Object(members) == <<"{">> \o members \o <<"}">>
Comma == <<",", " ">>
Null == <<"n", "u", "l", "l">>
Small == ToDecimal(SmallPk)
Large == ToDecimal(LargePk)
OtherLabel == <<"x">>

ShortTexts ==
    {pre \o barcode_model_type_code(1) \o ds : pre \in Prefixes, ds \in {Small, Large}}
    \cup {DefaultPrefix \o UnknownCode \o Small,
          DefaultPrefix \o barcode_model_type_code(2) \o <<"0">> \o Small,
          DefaultPrefix \o barcode_model_type_code(1) \o Small \o <<"\n">>,
          DefaultPrefix \o <<"p", "a">> \o Small,
          DefaultPrefix \o barcode_model_type_code(1),
          <<"X", "-">> \o barcode_model_type_code(1) \o Small,
          <<"g", "a", "r", "b", "a", "g", "e">>}

JsonTexts ==
    {Object(Member(PartLabel, Small) \o Comma \o Member(BuildLabel, Small)),
     Object(Member(BuildLabel, Small) \o Comma \o Member(PartLabel, Large)),
     Object(Member(PartLabel, Quoted(<<"x">>)) \o Comma \o Member(BuildLabel, Small)),
     Object(Member(PartLabel, Null) \o Comma \o Member(BuildLabel, Small)),
     Object(Member(PartLabel, Quoted(<<" ">> \o Small))),
     Object(Member(PartLabel, Small) \o Comma \o Member(PartLabel, Large)),
     Object(Member(PartLabel, <<"0">> \o Small)),
     Object(Member(OtherLabel, Small)),
     <<" ">> \o Object(Quoted(BuildLabel) \o <<":">> \o Large) \o <<"\n">>,
     <<"{">> \o Member(PartLabel, Small),
     Large}

Dicts ==
    {(PartLabel :> JInt(SmallPk)),
     (PartLabel :> JStr(Large)),
     (PartLabel :> JNull),
     (PartLabel :> JInt(SmallPk)) @@ (BuildLabel :> JInt(SmallPk)),
     (PartLabel :> JStr(<<"x">>)) @@ (BuildLabel :> JInt(SmallPk)),
     (PartLabel :> JInt(7)) @@ (BuildLabel :> JInt(LargePk)),
     (PartLabel :> JObj) @@ (BuildLabel :> JInt(SmallPk)),
     (OtherLabel :> JInt(SmallPk)),
     EmptyDict}

Payloads ==
    {TextPayload(s) : s \in ShortTexts \cup JsonTexts}
    \cup {DictPayload(d) : d \in Dicts}

(***************************************************************************)
(* State machine                                                           *)
(***************************************************************************)
TotalRecords(o) == Cardinality({r \in ModelIdx \X Ids : r[2] \in o[r[1]]})

InitStore ==
    /\ objects \in [ModelIdx -> SUBSET Ids]
    /\ TotalRecords(objects) <= MaxRecords
    /\ barcode_hash \in [ModelIdx -> [Ids -> {NoHash} \cup Hashes]]
    /\ \A m \in ModelIdx : \A pk \in Ids \ objects[m] : barcode_hash[m][pk] = NoHash
    /\ prefix \in Prefixes

InitCalls ==
    /\ op = "init"
    /\ instance = NoInstance
    /\ payload = NoPayload
    /\ result = NotScanned
    /\ prev_result = NotScanned

\* scan does not read INTERNAL_BARCODE_FORMAT: it stays at its default
Init == InitStore /\ barcode_format = "json" /\ InitCalls

InitGenerate == InitStore /\ barcode_format \in Formats /\ InitCalls

GenerateCall(m, pk) ==
    /\ op' = "generate"
    /\ instance' = Instance(m, pk)
    /\ payload' = TextPayload(Generate(Instance(m, pk)))
    /\ result' = NotScanned
    /\ prev_result' = NotScanned
    /\ UNCHANGED store

\* a scan whose short-format lookup is get_or_create
ScanCallCreating(p) ==
    LET m == ShortMatch(p)
        model == SupportedModelsMapGet(m.code)
    IN  /\ op' = "scan"
        /\ payload' = p
        /\ result' = Scan(p)
        /\ instance' = IF p = payload THEN instance ELSE NoInstance
        /\ prev_result' = IF op = "scan" /\ p = payload THEN result ELSE NotScanned
        /\ objects' = IF m.matched /\ model # NoModel
                      THEN [objects EXCEPT ![model] = @ \cup {DigitsValue(m.pk)}]
                      ELSE objects
        /\ UNCHANGED <<barcode_hash, prefix, barcode_format>>

\* instance stays set while the payload scanned is the one generated for it;
\* prev_result is the result of the scan just before, of the same payload
ScanCall(p) ==
    /\ op' = "scan"
    /\ payload' = p
    /\ result' = Scan(p)
    /\ instance' = IF p = payload THEN instance ELSE NoInstance
    /\ prev_result' = IF op = "scan" /\ p = payload THEN result ELSE NotScanned
    /\ UNCHANGED store

Next == \E p \in Payloads \cup ({payload} \ {NoPayload}) : ScanCall(p)

Spec == Init /\ [][Next]_vars

NextGenerate ==
    \/ \E m \in ModelIdx, pk \in Ids : GenerateCall(m, pk)
    \/ op = "generate" /\ ScanCall(payload)

SpecGenerate == InitGenerate /\ [][NextGenerate]_vars

(***************************************************************************)
(* Vocabulary of the properties                                            *)
(***************************************************************************)
Exists(inst) == inst.model \in ModelIdx /\ inst.pk \in objects[inst.model]

\* the result is Found{label of m, inst}
Found(r, m, inst) ==
    /\ r.kind = "dict"
    /\ barcode_model_type(m) \in DOMAIN r.d
    /\ r.d[barcode_model_type(m)] = inst

NotFound(r) == r.kind = "None"

LinkedModels(p) == {m \in ModelIdx : Linked(m, hash_barcode(p)) # {}}

\* the result is what the linked-barcode lookup of the payload gives
LinkedOutcome(r, p) ==
    IF LinkedModels(p) = {} THEN NotFound(r)
    ELSE /\ Found(r, Min(LinkedModels(p)),
                  lookup_barcode(Min(LinkedModels(p)), hash_barcode(p)))
         /\ r.strategy = 3

RoundTrip(fmt) == op = "scan" /\ instance # NoInstance /\ barcode_format = fmt

\* the registered models whose label is a key of d with a value that is
\* the integer id of an existing record
Resolvable(d) ==
    {m \in ModelIdx :
        /\ barcode_model_type(m) \in DOMAIN d
        /\ PyInt(d[barcode_model_type(m)]).exc = ""
        /\ PyInt(d[barcode_model_type(m)]).n \in objects[m]}

ResolvedId(d, m) == PyInt(d[barcode_model_type(m)]).n

HasLabelKey(d) == \E m \in ModelIdx : barcode_model_type(m) \in DOMAIN d

(***************************************************************************)
(* C1  Short-format round trip                                             *)
(***************************************************************************)
\* C1 (as stated): scanning the short barcode generated for record (D, i)
\* under the same prefix returns Found{D.typeLabel, record} when the record
\* exists and NotFound otherwise.
C1_ShortRoundTripOriginal ==
    RoundTrip("short") =>
        IF Exists(instance) THEN Found(result, instance.model, instance)
        ELSE NotFound(result)

\* C1 (amended): when the record exists the scan returns it through the short
\* format; when it does not, the scan returns what the linked-barcode lookup
\* of the generated text gives: the record linked to its hash, else NotFound.
C1_ShortRoundTrip ==
    RoundTrip("short") =>
        IF Exists(instance)
        THEN Found(result, instance.model, instance) /\ result.strategy = 1
        ELSE LinkedOutcome(result, payload)

C1_Witness ==
    /\ RoundTrip("short")
    /\ Exists(instance)
    /\ instance.pk = LargePk
    /\ prefix # <<>>
    /\ result.kind = "dict"

(***************************************************************************)
(* C2  JSON-format round trip                                              *)
(***************************************************************************)
\* C2 (as stated): scanning the JSON barcode generated for record (D, i) is
\* resolved by the JSON strategy and returns Found{D.typeLabel, record} when
\* the record exists and NotFound otherwise.
C2_JsonRoundTripOriginal ==
    RoundTrip("json") =>
        IF Exists(instance)
        THEN Found(result, instance.model, instance) /\ result.strategy = 2
        ELSE NotFound(result)

\* C2 (amended): when the record exists the scan returns it through the JSON
\* strategy; when it does not, the scan returns what the linked-barcode
\* lookup of the generated text gives: the record linked to its hash, else
\* NotFound.
C2_JsonRoundTrip ==
    RoundTrip("json") =>
        IF Exists(instance)
        THEN Found(result, instance.model, instance) /\ result.strategy = 2
        ELSE LinkedOutcome(result, payload)

C2_Witness ==
    /\ RoundTrip("json")
    /\ Exists(instance)
    /\ instance.pk = LargePk
    /\ result.strategy = 2

(***************************************************************************)
(* C3  generate                                                            *)
(***************************************************************************)
\* C3: in the short format the generated text is the prefix, then the
\* record's type code, then its primary key in decimal without leading zero;
\* for every other format it is the JSON document with the single key
\* typeLabel mapped to the integer primary key.
C3_GenerateOutput ==
    op = "generate" =>
        LET s == payload.text
            n == Len(prefix)
            code == barcode_model_type_code(instance.model)
            doc == JsonLoads(s)
        IN  IF barcode_format = "short"
            THEN /\ Len(s) >= n + Len(code) + 1
                 /\ SubSeq(s, 1, n) = prefix
                 /\ SubSeq(s, n + 1, n + Len(code)) = code
                 /\ AllDigits(SubSeq(s, n + Len(code) + 1, Len(s)))
                 /\ s[n + Len(code) + 1] # "0"
                 /\ DigitsValue(SubSeq(s, n + Len(code) + 1, Len(s))) = instance.pk
            ELSE /\ doc.ok
                 /\ doc.val.t = "dict"
                 /\ DOMAIN doc.dict = {barcode_model_type(instance.model)}
                 /\ doc.dict[barcode_model_type(instance.model)] = JInt(instance.pk)

C3_Witness ==
    /\ op = "generate"
    /\ barcode_format = "other"
    /\ instance.pk = LargePk
    /\ payload.text[1] = "{"

(***************************************************************************)
(* C4  Unknown type code                                                   *)
(***************************************************************************)
\* C4: a text that matches the short pattern with a type code that is not
\* registered falls through to the later strategies, so a record linked to
\* the hash of the text is returned as Found.
C4_UnknownCodeFallsThrough ==
    ( /\ op = "scan"
      /\ ShortMatch(payload).matched
      /\ SupportedModelsMapGet(ShortMatch(payload).code) = NoModel
      /\ LinkedModels(payload) # {} )
    => /\ result.kind = "dict"
       /\ LinkedOutcome(result, payload)

(***************************************************************************)
(* C5  scan never raises                                                   *)
(***************************************************************************)
\* C5: for every payload, whatever is stored under a type-label key, scan
\* ends with a Found result or with NotFound, never with an exception.
C5_ScanNeverRaises == op = "scan" => result.kind \in {"dict", "None"}

(***************************************************************************)
(* C6  Hash fallback                                                       *)
(***************************************************************************)
\* C6: for a payload that matches no short pattern and has no registered
\* label as a structured key, scan returns the record of the first model in
\* registry order whose lookup of the payload's hash is non-empty, and
\* NotFound when no model's lookup matches.
C6_HashFallback ==
    ( /\ op = "scan"
      /\ ~ShortMatch(payload).matched
      /\ ~HasLabelKey(BarcodeDict(payload).d) )
    => LinkedOutcome(result, payload)

C6_Witness ==
    /\ op = "scan"
    /\ ~ShortMatch(payload).matched
    /\ ~HasLabelKey(BarcodeDict(payload).d)
    /\ Cardinality(LinkedModels(payload)) > 1
    /\ result.kind = "dict"

(***************************************************************************)
(* C7  First match wins in the JSON strategy                               *)
(***************************************************************************)
\* C7: for a structured payload, the result is the record of the earliest
\* model in registration order whose key value is the integer id of an
\* existing record; a model whose key does not parse or names no record is
\* skipped.
C7_FirstMatchWins ==
    ( /\ op = "scan"
      /\ BarcodeDict(payload).isdict
      /\ Resolvable(BarcodeDict(payload).d) # {} )
    => LET d == BarcodeDict(payload).d
           m == Min(Resolvable(d))
       IN  Found(result, m, Instance(m, ResolvedId(d, m)))

(***************************************************************************)
(* C8  Strategy priority                                                   *)
(***************************************************************************)
ShortResolves(p) ==
    /\ ShortMatch(p).matched
    /\ SupportedModelsMapGet(ShortMatch(p).code) # NoModel
    /\ DigitsValue(ShortMatch(p).pk) \in objects[SupportedModelsMapGet(ShortMatch(p).code)]

\* C8: whenever scan returns, its result is that of the first of the short,
\* the structured and the linked-barcode strategy to yield a match; a payload
\* resolved by the first two is returned whatever its hash is linked to.
C8_StrategyPriority ==
    (op = "scan" /\ result.kind # "raise") =>
        LET d == BarcodeDict(payload).d
            sm == SupportedModelsMapGet(ShortMatch(payload).code)
        IN  IF ShortResolves(payload)
            THEN Found(result, sm, Instance(sm, DigitsValue(ShortMatch(payload).pk)))
            ELSE IF Resolvable(d) # {}
            THEN Found(result, Min(Resolvable(d)),
                       Instance(Min(Resolvable(d)), ResolvedId(d, Min(Resolvable(d)))))
            ELSE LinkedOutcome(result, payload)

C10_ResultShape ==
    (op = "scan" /\ result.kind = "dict") =>
        LET labels == DOMAIN result.d \ {SuccessKey}
        IN  /\ Cardinality(labels) = 1
            /\ \A k \in labels :
                  /\ Exists(result.d[k])
                  /\ k = barcode_model_type(result.d[k].model)
            /\ result.strategy \in 1..3
            /\ result.strategy = 1 => SuccessKey \notin DOMAIN result.d
            /\ result.strategy \in {2, 3} =>
                  /\ SuccessKey \in DOMAIN result.d
                  /\ result.d[SuccessKey] = succcess_message

C10_Witness ==
    /\ op = "scan"
    /\ result.kind = "dict"
    /\ result.strategy = 1
    /\ LinkedModels(payload) # {}

====
